---- MODULE Spec2Model ----
(***************************************************************************)
(* Model of whois.js: the interactive WHOIS query loop (main), the         *)
(* hostname normaliser (getCleanHostname) and the free-text record parser  *)
(* (WhoisService.parseWhoisOutput with extractDate and toDate).            *)
(*                                                                         *)
(* A JavaScript string is a sequence of one-character strings.  An         *)
(* optional value (JavaScript null against a value) is a record            *)
(* [some, val]; None stands for null.                                      *)
(***************************************************************************)
EXTENDS Integers, Sequences, FiniteSets, TLC

VARIABLES
    pc,         \* where main is suspended: "AwaitingInput", "LookingUp", "Done"
    questions,  \* rl.question callbacks registered and not yet answered
    inFlight,   \* exec("whois ...") children started whose callback has not run
    lineRead,   \* the line the last rl.question callback received (untrimmed)
    urlInput,   \* main's urlInput: the trimmed answer
    hostname,   \* main's hostname: the result of getCleanHostname(urlInput)
    execCalls,  \* calls of exec made since the last line was read
    execArgs,   \* the (error, stdout) the last exec callback was called with
    outcome,    \* what getWhoisData resolved with in this iteration
    printed,    \* the kind of message main printed last
    arg,        \* argument of the pure function under study
    ret         \* its result

vars == <<pc, questions, inFlight, lineRead, urlInput, hostname, execCalls,
          execArgs, outcome, printed, arg, ret>>

mainVars == <<pc, questions, inFlight, lineRead, urlInput, hostname, execCalls,
              execArgs, outcome, printed>>

(***************************************************************************)
(* Values and strings                                                      *)
(***************************************************************************)
None == [some |-> FALSE, val |-> <<>>]

Some(v) == [some |-> TRUE, val |-> v]

\* JavaScript truthiness of a string-or-null: null and "" are falsy.
Truthy(o) == o.some /\ o.val # <<>>

UpperAlpha == <<"A", "B", "C", "D", "E", "F", "G", "H", "I", "J", "K", "L", "M", "N", "O", "P", "Q", "R", "S", "T", "U", "V", "W", "X", "Y", "Z">> (* ABCDEFGHIJKLMNOPQRSTUVWXYZ *)

LowerAlpha == <<"a", "b", "c", "d", "e", "f", "g", "h", "i", "j", "k", "l", "m", "n", "o", "p", "q", "r", "s", "t", "u", "v", "w", "x", "y", "z">> (* abcdefghijklmnopqrstuvwxyz *)

Digit == {"0", "1", "2", "3", "4", "5", "6", "7", "8", "9"}

\* The characters String.prototype.trim removes, as far as inputs carry them.
WhiteSpace == {" ", "\t", "\r", "\n"}

SetMin(S) == CHOOSE x \in S : \A y \in S : x <= y

SetMax(S) == CHOOSE x \in S : \A y \in S : y <= x

\* The lower-case letter of each upper-case ASCII letter.
LowerOf == [c \in {UpperAlpha[i] : i \in 1..26} |->
              LowerAlpha[CHOOSE i \in 1..26 : UpperAlpha[i] = c]]

toLowerChar(c) == IF c \in DOMAIN LowerOf THEN LowerOf[c] ELSE c

toLowerCase(s) == [i \in 1..Len(s) |-> toLowerChar(s[i])]

trim(s) ==
    LET keep == {i \in 1..Len(s) : s[i] \notin WhiteSpace}
    IN  IF keep = {} THEN <<>> ELSE SubSeq(s, SetMin(keep), SetMax(keep))

startsWith(s, p) == Len(s) >= Len(p) /\ SubSeq(s, 1, Len(p)) = p

\* s.substring(n): the string from 0-based index n on.
substring(s, n) == SubSeq(s, n + 1, Len(s))

\* Positions of s at which the string p occurs.
Occurrences(s, p) ==
    {i \in 1..(Len(s) - Len(p) + 1) : SubSeq(s, i, i + Len(p) - 1) = p}

\* /p/i.test(s) for the literal patterns ps given in lower case: some p occurs.
testI(s, ps) == LET low == toLowerCase(s) IN \E p \in ps : Occurrences(low, p) # {}

\* /^p/i.test(s) for the literal patterns ps given in lower case.
testStartI(s, ps) == LET low == toLowerCase(s) IN \E p \in ps : startsWith(low, p)

RECURSIVE Flatten(_)
Flatten(ss) == IF ss = <<>> THEN <<>> ELSE Head(ss) \o Flatten(Tail(ss))

\* All sequences of at most n elements of S.
SeqUpTo(S, n) == UNION {[1..k -> S] : k \in 0..n}

(***************************************************************************)
(* new URL(tempUrl).hostname, for a string that starts with http:// or     *)
(* https:// in any case (getCleanHostname makes sure of it).  The WHATWG    *)
(* parser's steps that decide the host of such a URL: tab and newline are  *)
(* dropped, the slashes after the scheme are skipped, the authority ends   *)
(* at the first / ? # or \, credentials end at the last @, the port starts *)
(* at the first : after them, an empty host or a forbidden host code point *)
(* or a non-digit in the port is a failure, and the host is lower-cased.   *)
(* Inputs carry no digit, %, [ or non-ASCII character, so IPv4/IPv6        *)
(* literals, percent-decoding, IDNA and the port's range never arise.      *)
(***************************************************************************)
ForbiddenHostCodePoint ==
    {" ", "#", "/", ":", "<", ">", "?", "@", "[", "\\", "]", "^", "|", "%"}

AuthorityEnd == {"/", "?", "#", "\\"}

RemoveTabNewline(s) == SelectSeq(s, LAMBDA c : c \notin {"\t", "\n", "\r"})

RECURSIVE SkipSlashes(_)
SkipSlashes(s) ==
    IF s # <<>> /\ Head(s) \in {"/", "\\"} THEN SkipSlashes(Tail(s)) ELSE s

URLhostname(tempUrl) ==
    LET input     == RemoveTabNewline(tempUrl)
        colon     == SetMin({i \in 1..Len(input) : input[i] = ":"})
        rest      == SkipSlashes(substring(input, colon))
        ends      == {i \in 1..Len(rest) : rest[i] \in AuthorityEnd}
        authority == IF ends = {} THEN rest ELSE SubSeq(rest, 1, SetMin(ends) - 1)
        ats       == {i \in 1..Len(authority) : authority[i] = "@"}
        hostport  == IF ats = {} THEN authority ELSE substring(authority, SetMax(ats))
        colons    == {i \in 1..Len(hostport) : hostport[i] = ":"}
        host      == IF colons = {} THEN hostport
                     ELSE SubSeq(hostport, 1, SetMin(colons) - 1)
        port      == IF colons = {} THEN <<>> ELSE substring(hostport, SetMin(colons))
    IN  IF host = <<>> THEN None
        ELSE IF \E i \in 1..Len(host) : host[i] \in ForbiddenHostCodePoint THEN None
        ELSE IF \E i \in 1..Len(port) : port[i] \notin Digit THEN None
        ELSE Some(toLowerCase(host))

HttpPrefix == <<"h", "t", "t", "p", ":", "/", "/">> (* http:// *)

WwwPrefix == <<"w", "w", "w", ".">>

\* /^https?:\/\//i.test(s)
HasHttpScheme(s) == testStartI(s, {<<"h", "t", "t", "p", ":", "/", "/">> (* http:// *), <<"h", "t", "t", "p", "s", ":", "/", "/">> (* https:// *)})

\* getCleanHostname without the removal of the "www." prefix.
getCleanHostname_KeepWww(urlIn) ==
    IF urlIn = <<>> THEN None
    ELSE LET trimmed == trim(urlIn)
             tempUrl == IF HasHttpScheme(trimmed) THEN trimmed
                        ELSE HttpPrefix \o trimmed
         IN  URLhostname(tempUrl)

getCleanHostname(urlIn) ==
    IF urlIn = <<>> THEN None
    ELSE LET trimmed == trim(urlIn)
             tempUrl == IF HasHttpScheme(trimmed) THEN trimmed
                        ELSE HttpPrefix \o trimmed
             parsed  == URLhostname(tempUrl)
         IN  IF ~parsed.some THEN None
             ELSE IF startsWith(parsed.val, WwwPrefix)
                  THEN Some(substring(parsed.val, 4))
                  ELSE parsed

(***************************************************************************)
(* WhoisService.extractDate, toDate and parseWhoisOutput                   *)
(***************************************************************************)
\* Whether \d{4}<sep>\d{2}<sep>\d{2} matches s at position i.
DateAt(s, i, sep) ==
    /\ i + 9 <= Len(s)
    /\ \A k \in {0, 1, 2, 3, 5, 6, 8, 9} : s[i + k] \in Digit
    /\ s[i + 4] = sep
    /\ s[i + 7] = sep

\* line.match(/(\d{4}<sep>\d{2}<sep>\d{2})/): the regular expression is tried
\* at each position from the left, and the first position that matches wins.
RECURSIVE matchDate(_, _, _)
matchDate(line, sep, i) ==
    IF i + 9 > Len(line) THEN None
    ELSE IF DateAt(line, i, sep) THEN Some(SubSeq(line, i, i + 9))
    ELSE matchDate(line, sep, i + 1)

\* str.replace(/\//g, '-')
replaceSlashes(s) == [i \in 1..Len(s) |-> IF s[i] = "/" THEN "-" ELSE s[i]]

\* extractDate trying the slashed pattern before the dashed one.
extractDate_SlashFirst(line) ==
    LET slashed == matchDate(line, "/", 1)
    IN  IF slashed.some THEN Some(replaceSlashes(slashed.val))
        ELSE matchDate(line, "-", 1)

extractDate(line) ==
    LET dashed == matchDate(line, "-", 1)
    IN  IF dashed.some THEN dashed
        ELSE LET slashed == matchDate(line, "/", 1)
             IN  IF slashed.some THEN Some(replaceSlashes(slashed.val)) ELSE None

DigitValue(c) ==
    CASE c = "0" -> 0 [] c = "1" -> 1 [] c = "2" -> 2 [] c = "3" -> 3 [] c = "4" -> 4
      [] c = "5" -> 5 [] c = "6" -> 6 [] c = "7" -> 7 [] c = "8" -> 8 [] c = "9" -> 9

RECURSIVE Number(_)
Number(s) ==
    IF s = <<>> THEN 0 ELSE 10 * Number(SubSeq(s, 1, Len(s) - 1)) + DigitValue(s[Len(s)])

IsLeapYear(y) == (y % 4 = 0 /\ y % 100 # 0) \/ y % 400 = 0

DaysInMonth(y, m) ==
    IF m = 2 THEN (IF IsLeapYear(y) THEN 29 ELSE 28)
    ELSE IF m \in {4, 6, 9, 11} THEN 30 ELSE 31

\* new Date(str) for str of the form DDDD-DD-DD, as Node's engine (V8) does it:
\* the date parser accepts a month in 1..12 and a day in 1..31 and anything
\* else is an Invalid Date (NaN); the accepted day is then counted from the
\* first of the month, so a day past the month's end lands in the next month.
\* The value is the calendar day the Date object denotes, or None for NaN.
NewDate(str) ==
    LET y == Number(SubSeq(str, 1, 4))
        m == Number(SubSeq(str, 6, 7))
        d == Number(SubSeq(str, 9, 10))
    IN  IF m \notin 1..12 \/ d \notin 1..31 THEN None
        ELSE IF d <= DaysInMonth(y, m) THEN Some([year |-> y, month |-> m, day |-> d])
        ELSE Some([year |-> y, month |-> m + 1, day |-> d - DaysInMonth(y, m)])

\* str is a string-or-null; the result is a Date-or-null.
toDate(str) ==
    IF ~Truthy(str) THEN None ELSE NewDate(str.val)

\* s.split(sep) for a one-character separator.
RECURSIVE split(_, _)
split(s, sep) ==
    LET at == {i \in 1..Len(s) : s[i] = sep}
    IN  IF at = {} THEN <<s>>
        ELSE <<SubSeq(s, 1, SetMin(at) - 1)>> \o split(substring(s, SetMin(at)), sep)

\* The labels of the four fields, in lower case (the tests are /.../i).
CreationLabels == {<<"c", "r", "e", "a", "t", "e", "d", " ", "o", "n", ":">> (* created on: *), <<"c", "r", "e", "a", "t", "i", "o", "n", " ", "d", "a", "t", "e", ":">> (* creation date: *), <<"r", "e", "g", "i", "s", "t", "e", "r", "e", "d", " ", "o", "n", ":">> (* registered on: *)}

UpdatedLabels == {<<"u", "p", "d", "a", "t", "e", "d", " ", "o", "n", ":">> (* updated on: *), <<"l", "a", "s", "t", " ", "u", "p", "d", "a", "t", "e", "d", " ", "o", "n", ":">> (* last updated on: *), <<"u", "p", "d", "a", "t", "e", "d", " ", "d", "a", "t", "e", ":">> (* updated date: *)}

ExpiryLabels == {<<"e", "x", "p", "i", "r", "a", "t", "i", "o", "n", " ", "d", "a", "t", "e", ":">> (* expiration date: *), <<"e", "x", "p", "i", "r", "e", "s", " ", "o", "n", ":">> (* expires on: *), <<"e", "x", "p", "i", "r", "y", " ", "d", "a", "t", "e", ":">> (* expiry date: *)}

IsCountryLine(line) ==
    testI(line, {<<"r", "e", "g", "i", "s", "t", "r", "a", "n", "t", " ", "c", "o", "u", "n", "t", "r", "y", ":">> (* registrant country: *)}) \/ testStartI(line, {<<"c", "o", "u", "n", "t", "r", "y", ":">> (* country: *)})

\* The body of the for loop keeping the first value found for each field.
parseLine_FirstWins(f, line) ==
    LET parts   == split(line, ":")
        dateStr == extractDate(line)
    IN  [registrantCountry |->
            IF /\ IsCountryLine(line) /\ Len(parts) >= 2 /\ trim(parts[2]) # <<>>
               /\ ~f.registrantCountry.some
            THEN Some(trim(parts[2])) ELSE f.registrantCountry,
         creationDate |->
            IF testI(line, CreationLabels) /\ Truthy(dateStr) /\ ~f.creationDate.some
            THEN dateStr ELSE f.creationDate,
         updatedDate |->
            IF testI(line, UpdatedLabels) /\ Truthy(dateStr) /\ ~f.updatedDate.some
            THEN dateStr ELSE f.updatedDate,
         expiryDate |->
            IF testI(line, ExpiryLabels) /\ Truthy(dateStr) /\ ~f.expiryDate.some
            THEN dateStr ELSE f.expiryDate]

\* The body of the for loop: the four variables after one (trimmed) line.
parseLine(f, line) ==
    LET parts   == split(line, ":")
        dateStr == extractDate(line)
    IN  [registrantCountry |->
            IF IsCountryLine(line) /\ Len(parts) >= 2 /\ trim(parts[2]) # <<>>
            THEN Some(trim(parts[2])) ELSE f.registrantCountry,
         creationDate |->
            IF testI(line, CreationLabels) /\ Truthy(dateStr)
            THEN dateStr ELSE f.creationDate,
         updatedDate |->
            IF testI(line, UpdatedLabels) /\ Truthy(dateStr)
            THEN dateStr ELSE f.updatedDate,
         expiryDate |->
            IF testI(line, ExpiryLabels) /\ Truthy(dateStr)
            THEN dateStr ELSE f.expiryDate]

RECURSIVE parseLines(_, _)
parseLines(f, lines) ==
    IF lines = <<>> THEN f ELSE parseLines(parseLine(f, Head(lines)), Tail(lines))

\* rawData.split('\n').map(line => line.trim())
trimmedLines(rawData) ==
    LET ls == split(rawData, "\n") IN [i \in 1..Len(ls) |-> trim(ls[i])]

parseWhoisOutput(rawData) ==
    LET f == parseLines([registrantCountry |-> None, creationDate |-> None,
                         updatedDate |-> None, expiryDate |-> None],
                        trimmedLines(rawData))
    IN  [registrantCountry |-> f.registrantCountry,
         creationDate      |-> toDate(f.creationDate),
         updatedDate       |-> toDate(f.updatedDate),
         expiryDate        |-> toDate(f.expiryDate)]

(***************************************************************************)
(* WhoisService.getWhoisRaw and getWhoisData.  exec's callback receives    *)
(* error (null, or an Error whose message is error.val) and stdout.        *)
(***************************************************************************)
\* The two failure reasons (the second without its accent).
ExecErrorPrefix == <<"E", "r", "r", "o", "r", " ", "a", "l", " ", "e", "j", "e", "c", "u", "t", "a", "r", " ", "W", "H", "O", "I", "S", ":", " ">> (* Error al ejecutar WHOIS:  *)

NoDataMessage == <<"W", "H", "O", "I", "S", " ", "n", "o", " ", "d", "e", "v", "o", "l", "v", "i", "o", " ", "d", "a", "t", "o", "s", ".">> (* WHOIS no devolvio datos. *)

\* getWhoisRaw looking at stdout before error.
getWhoisRaw_StdoutFirst(error, stdout) ==
    IF stdout # <<>> THEN [error |-> None, data |-> Some(stdout)]
    ELSE IF error.some
    THEN [error |-> Some(ExecErrorPrefix \o error.val), data |-> None]
    ELSE [error |-> Some(NoDataMessage), data |-> None]

\* What the exec callback resolves the promise of getWhoisRaw with.
getWhoisRaw(error, stdout) ==
    IF error.some
    THEN [error |-> Some(ExecErrorPrefix \o error.val), data |-> None]
    ELSE IF stdout = <<>>
    THEN [error |-> Some(NoDataMessage), data |-> None]
    ELSE [error |-> None, data |-> Some(stdout)]

\* What getWhoisData resolves with, once getWhoisRaw has resolved.
getWhoisData(error, stdout) ==
    LET r == getWhoisRaw(error, stdout)
    IN  IF Truthy(r.error) THEN [error |-> r.error, data |-> None]
        ELSE [error |-> None,
              data  |-> Some([raw |-> r.data.val, parsed |-> parseWhoisOutput(r.data.val)])]

(***************************************************************************)
(* Inputs                                                                  *)
(***************************************************************************)
MaxUrlChunks == 3

MaxAnswerChunks == 2

MaxLines == 2

MaxDateChunks == 4

\* The pieces URLs and prompt answers are made of.
UrlChunks ==
    {<<"h", "t", "t", "p", ":", "/", "/">> (* http:// *), <<"H", "T", "T", "P", "S", ":", "/", "/">> (* HTTPS:// *), <<"w", "w", "w", ".">>, <<"W", "W", "W", ".">>, <<"a">>, <<"B">>,
     <<".">>, <<"/">>, <<":">>, <<"@">>, <<" ">>}

\* Arguments of getCleanHostname: up to MaxUrlChunks pieces.
UrlInputs == {Flatten(cs) : cs \in SeqUpTo(UrlChunks, MaxUrlChunks)}

\* What the operator types at the prompt: up to MaxAnswerChunks pieces.
InputLines == {Flatten(cs) : cs \in SeqUpTo(UrlChunks, MaxAnswerChunks)}

\* Lines of a WHOIS record.
LinePool ==
    {<<>>,
     <<"D", "o", "m", "a", "i", "n", " ", "N", "a", "m", "e", ":", " ", "E", "X", "A", "M", "P", "L", "E", ".", "C", "O", "M">> (* Domain Name: EXAMPLE.COM *),
     <<"R", "e", "g", "i", "s", "t", "r", "a", "n", "t", " ", "C", "o", "u", "n", "t", "r", "y", ":", " ", "U", "S">> (* Registrant Country: US *),
     <<"C", "o", "u", "n", "t", "r", "y", ":", " ", "C", "A">> (* Country: CA *),
     <<"c", "o", "u", "n", "t", "r", "y", ":">> (* country: *),
     <<"C", "o", "u", "n", "t", "r", "y", ":", " ", "U", "S", ":", " ", "x">> (* Country: US: x *),
     <<"A", "d", "m", "i", "n", ":", " ", "R", "e", "g", "i", "s", "t", "r", "a", "n", "t", " ", "C", "o", "u", "n", "t", "r", "y", ":", " ", "Z", "Z">> (* Admin: Registrant Country: ZZ *),
     <<"C", "r", "e", "a", "t", "i", "o", "n", " ", "D", "a", "t", "e", ":", " ", "2", "0", "2", "0", "/", "0", "5", "/", "0", "1", " ", ".", ".", ".">> (* Creation Date: 2020/05/01 ... *),
     <<"c", "r", "e", "a", "t", "e", "d", " ", "o", "n", ":", " ", "1", "9", "9", "7", "-", "0", "9", "-", "1", "5">> (* created on: 1997-09-15 *),
     <<"C", "r", "e", "a", "t", "i", "o", "n", " ", "D", "a", "t", "e", ":", " ", "2", "0", "2", "1", "-", "1", "3", "-", "4", "0">> (* Creation Date: 2021-13-40 *),
     <<"C", "r", "e", "a", "t", "i", "o", "n", " ", "D", "a", "t", "e", ":", " ", "2", "0", "2", "1", "-", "0", "2", "-", "3", "0">> (* Creation Date: 2021-02-30 *),
     <<"C", "r", "e", "a", "t", "i", "o", "n", " ", "D", "a", "t", "e", ":", " ", "u", "n", "k", "n", "o", "w", "n">> (* Creation Date: unknown *),
     <<"U", "p", "d", "a", "t", "e", "d", " ", "D", "a", "t", "e", ":", " ", "2", "0", "2", "2", "-", "0", "9", "-", "2", "0">> (* Updated Date: 2022-09-20 *),
     <<" ", " ", " ", "R", "e", "g", "i", "s", "t", "r", "y", " ", "E", "x", "p", "i", "r", "y", " ", "D", "a", "t", "e", ":", " ", "2", "0", "2", "8", "-", "0", "9", "-", "1", "4", "T", "0", "4", ":", "0", "0", ":", "0", "0", "Z", "\r">> (*    Registry Expiry Date: 2028-09-14T04:00:00Z\r *)}

RECURSIVE joinLines(_)
joinLines(ls) ==
    IF ls = <<>> THEN <<>>
    ELSE IF Len(ls) = 1 THEN ls[1]
    ELSE ls[1] \o <<"\n">> \o joinLines(Tail(ls))

\* Arguments of parseWhoisOutput: records of 1..MaxLines lines.
RawInputs == {joinLines(ls) : ls \in SeqUpTo(LinePool, MaxLines) \ {<<>>}}

\* The pieces the arguments of extractDate are made of.
DateChunks ==
    {<<"2", "0", "2", "0">>, <<"-", "0", "5">>, <<"/", "0", "5">>, <<"-", "0", "1">>, <<"/", "0", "1">>, <<"1", "9", "9", "7", "/", "0", "9", "/", "1", "5">> (* 1997/09/15 *),
     <<"2", "0", "2", "1", "-", "1", "3", "-", "4", "0">> (* 2021-13-40 *), <<"c", "r", "e", "a", "t", "e", "d", " ", "o", "n", ":", " ">> (* created on:  *)}

\* Arguments of extractDate: up to MaxDateChunks pieces.
DateInputs == {Flatten(cs) : cs \in SeqUpTo(DateChunks, MaxDateChunks)}

\* error.message of a failed exec.
ErrorMessages == {<<>>, <<"C", "o", "m", "m", "a", "n", "d", " ", "f", "a", "i", "l", "e", "d">> (* Command failed *)}

\* What the whois command prints in the query loop.
WhoisOutputs ==
    {<<>>,
     <<"N", "o", " ", "m", "a", "t", "c", "h", " ", "f", "o", "r", " ", "d", "o", "m", "a", "i", "n">> (* No match for domain *),
     <<"U", "p", "d", "a", "t", "e", "d", " ", "D", "a", "t", "e", ":", " ", "2", "0", "2", "2", "-", "0", "9", "-", "2", "0", "\n", "C", "r", "e", "a", "t", "i", "o", "n", " ", "D", "a", "t", "e", ":", " ", "1", "9", "9", "7", "-", "0", "9", "-", "1", "5", "\n", "R", "e", "g", "i", "s", "t", "r", "y", " ", "E", "x", "p", "i", "r", "y", " ", "D", "a", "t", "e", ":", " ", "2", "0", "2", "8", "-", "0", "9", "-", "1", "4", "\n", "R", "e", "g", "i", "s", "t", "r", "a", "n", "t", " ", "C", "o", "u", "n", "t", "r", "y", ":", " ", "U", "S", "\n">> (* Updated Date: 2022-09-20\nCreation Date: 1997-09-15\nRegistry Expiry Date: 2028-09-14\nRegistrant Country: US\n *)}

(***************************************************************************)
(* main: the query loop.  main is suspended either in ask (a question is   *)
(* registered with readline) or in getWhoisData (an exec child is running);*)
(* "LoopTop" is the head of while (true), "Done" is after rl.close().      *)
(***************************************************************************)
MainInit ==
    /\ pc = "LoopTop"
    /\ questions = 0
    /\ inFlight = 0
    /\ lineRead = None
    /\ urlInput = None
    /\ hostname = None
    /\ execCalls = 0
    /\ execArgs = None
    /\ outcome = None
    /\ printed = "welcome"

Init == MainInit /\ arg = <<>> /\ ret = None

\* const urlInput = await ask('URL: '): the question is registered; the
\* previous iteration's variables are out of scope.
ask ==
    /\ pc = "LoopTop"
    /\ pc' = "AwaitingInput"
    /\ questions' = questions + 1
    /\ lineRead' = None
    /\ urlInput' = None
    /\ hostname' = None
    /\ execCalls' = 0
    /\ execArgs' = None
    /\ outcome' = None
    /\ printed' = "prompt"
    /\ UNCHANGED <<inFlight, arg, ret>>

\* The question's callback runs with an answer that is empty once trimmed.
AnswerEmpty(line) ==
    /\ pc = "AwaitingInput"
    /\ questions > 0
    /\ trim(line) = <<>>
    /\ questions' = questions - 1
    /\ lineRead' = Some(line)
    /\ urlInput' = Some(trim(line))
    /\ printed' = "bye"
    /\ pc' = "Done"
    /\ UNCHANGED <<inFlight, hostname, execCalls, execArgs, outcome, arg, ret>>

\* AnswerInvalid leaving the loop (break) where the code continues.
AnswerInvalid_Break(line) ==
    /\ pc = "AwaitingInput"
    /\ questions > 0
    /\ trim(line) # <<>>
    /\ ~Truthy(getCleanHostname(trim(line)))
    /\ questions' = questions - 1
    /\ lineRead' = Some(line)
    /\ urlInput' = Some(trim(line))
    /\ hostname' = getCleanHostname(trim(line))
    /\ printed' = "invalid"
    /\ pc' = "Done"
    /\ UNCHANGED <<inFlight, execCalls, execArgs, outcome, arg, ret>>

\* The answer is not empty and getCleanHostname gives no hostname.
AnswerInvalid(line) ==
    /\ pc = "AwaitingInput"
    /\ questions > 0
    /\ trim(line) # <<>>
    /\ ~Truthy(getCleanHostname(trim(line)))
    /\ questions' = questions - 1
    /\ lineRead' = Some(line)
    /\ urlInput' = Some(trim(line))
    /\ hostname' = getCleanHostname(trim(line))
    /\ printed' = "invalid"
    /\ pc' = "LoopTop"
    /\ UNCHANGED <<inFlight, execCalls, execArgs, outcome, arg, ret>>

\* AnswerLookup without the await: the loop goes on while exec runs.
AnswerLookup_NoAwait(line) ==
    /\ pc = "AwaitingInput"
    /\ questions > 0
    /\ trim(line) # <<>>
    /\ Truthy(getCleanHostname(trim(line)))
    /\ questions' = questions - 1
    /\ lineRead' = Some(line)
    /\ urlInput' = Some(trim(line))
    /\ hostname' = getCleanHostname(trim(line))
    /\ printed' = "consulting"
    /\ execCalls' = execCalls + 1
    /\ inFlight' = inFlight + 1
    /\ pc' = "LoopTop"
    /\ UNCHANGED <<execArgs, outcome, arg, ret>>

\* The answer gives a hostname: getWhoisData calls getWhoisRaw, which starts
\* exec(`whois ${hostname}`), and main is suspended until it resolves.
AnswerLookup(line) ==
    /\ pc = "AwaitingInput"
    /\ questions > 0
    /\ trim(line) # <<>>
    /\ Truthy(getCleanHostname(trim(line)))
    /\ questions' = questions - 1
    /\ lineRead' = Some(line)
    /\ urlInput' = Some(trim(line))
    /\ hostname' = getCleanHostname(trim(line))
    /\ printed' = "consulting"
    /\ execCalls' = execCalls + 1
    /\ inFlight' = inFlight + 1
    /\ pc' = "LookingUp"
    /\ UNCHANGED <<execArgs, outcome, arg, ret>>

\* ExecCallback starting the lookup again when it failed.
ExecCallback_Retry(error, stdout) ==
    LET result == getWhoisData(error, stdout)
    IN  /\ inFlight > 0
        /\ execArgs' = Some([error |-> error, stdout |-> stdout])
        /\ outcome' = Some(result)
        /\ IF Truthy(result.error) /\ execCalls < 2
           THEN /\ execCalls' = execCalls + 1
                /\ UNCHANGED <<inFlight, printed, pc>>
           ELSE /\ inFlight' = inFlight - 1
                /\ printed' = IF Truthy(result.error) THEN "error" ELSE "data"
                /\ pc' = "LoopTop"
                /\ UNCHANGED execCalls
        /\ UNCHANGED <<questions, lineRead, urlInput, hostname, arg, ret>>

\* exec's callback runs: getWhoisRaw resolves, getWhoisData parses and
\* resolves, and main prints the failure or the record.
ExecCallback(error, stdout) ==
    /\ inFlight > 0
    /\ inFlight' = inFlight - 1
    /\ execArgs' = Some([error |-> error, stdout |-> stdout])
    /\ LET result == getWhoisData(error, stdout)
       IN  /\ outcome' = Some(result)
           /\ printed' = IF Truthy(result.error) THEN "error" ELSE "data"
    /\ pc' = "LoopTop"
    /\ UNCHANGED <<questions, lineRead, urlInput, hostname, execCalls, arg, ret>>

Next ==
    \/ ask
    \/ \E line \in InputLines : AnswerEmpty(line)
    \/ \E line \in InputLines : AnswerInvalid(line)
    \/ \E line \in InputLines : AnswerLookup(line)
    \/ \E msg \in ErrorMessages, stdout \in WhoisOutputs :
          ExecCallback(Some(msg), stdout)
    \/ \E stdout \in WhoisOutputs : ExecCallback(None, stdout)

Spec == Init /\ [][Next]_vars

(***************************************************************************)
(* The pure functions, each applied once to an argument of its input set.  *)
(***************************************************************************)
HostInit == MainInit /\ arg \in UrlInputs /\ ret = None

CallGetCleanHostname ==
    /\ ~ret.some
    /\ ret' = Some(getCleanHostname(arg))
    /\ UNCHANGED <<mainVars, arg>>

SpecHost == HostInit /\ [][CallGetCleanHostname]_vars

ParseInit == MainInit /\ arg \in RawInputs /\ ret = None

CallParseWhoisOutput ==
    /\ ~ret.some
    /\ ret' = Some(parseWhoisOutput(arg))
    /\ UNCHANGED <<mainVars, arg>>

SpecParse == ParseInit /\ [][CallParseWhoisOutput]_vars

ExtractInit == MainInit /\ arg \in DateInputs /\ ret = None

CallExtractDate ==
    /\ ~ret.some
    /\ ret' = Some(extractDate(arg))
    /\ UNCHANGED <<mainVars, arg>>

SpecExtract == ExtractInit /\ [][CallExtractDate]_vars

(***************************************************************************)
(* The query loop                                                          *)
(***************************************************************************)
\* C1: Done is entered only from AwaitingInput and only when the line read
\* is empty once trimmed (and an empty line always ends the session); every
\* other line leads back to the head of the loop, directly or through the
\* lookup, whatever the lookup gives, and the loop then prompts again.
C1_DoneOnlyOnEmptyInput ==
    [][/\ (pc' = "Done" /\ pc # "Done" =>
              pc = "AwaitingInput" /\ trim(lineRead'.val) = <<>> /\ printed' = "bye")
       /\ (pc = "AwaitingInput" /\ trim(lineRead'.val) = <<>> => pc' = "Done")
       /\ (pc = "AwaitingInput" /\ trim(lineRead'.val) # <<>> =>
              pc' \in {"LoopTop", "LookingUp"})
       /\ (pc = "LookingUp" => pc' = "LoopTop")
       /\ (pc = "LoopTop" => pc' = "AwaitingInput" /\ questions' = 1)]_vars

\* C1 witness: a failed lookup has been reported and main is back at the head
\* of the loop.
C1_Witness ==
    pc = "LoopTop" /\ outcome.some /\ Truthy(outcome.val.error) /\ printed = "error"

\* C2: for the line read in an iteration, exec is called zero times when the
\* line is empty or getCleanHostname gives no hostname (and the validation
\* failure is what is printed for a non-empty line), and exactly once when
\* it gives a hostname, also after the lookup has failed.
C2_LookupOncePerValidInput ==
    lineRead.some =>
        LET trimmed == trim(lineRead.val)
        IN  IF trimmed = <<>> \/ ~Truthy(getCleanHostname(trimmed))
            THEN /\ execCalls = 0
                 /\ inFlight = 0
                 /\ ~outcome.some
                 /\ printed = (IF trimmed = <<>> THEN "bye" ELSE "invalid")
            ELSE execCalls = 1

\* C2 witness: a lookup failed with an invocation error and exec has been
\* called once in the iteration.
C2_Witness ==
    /\ pc = "LoopTop"
    /\ execArgs.some /\ execArgs.val.error.some
    /\ execCalls = 1

\* C3: what getWhoisRaw and getWhoisData resolve with has exactly one of
\* error and data: an invocation error gives a failure even with output, an
\* empty output gives a failure, and an output without error gives the raw
\* text and the record parsed from it.
C3_OutcomeExactlyOne ==
    outcome.some =>
        LET o == outcome.val
            a == execArgs.val
            r == getWhoisRaw(a.error, a.stdout)
        IN  /\ Truthy(r.error) # r.data.some
            /\ r.error.some # r.data.some
            /\ Truthy(o.error) # o.data.some
            /\ o.error.some # o.data.some
            /\ (a.error.some => o.error.some /\ r.error.some)
            /\ (a.stdout = <<>> => o.error.some /\ r.error.some)
            /\ (~a.error.some /\ a.stdout # <<>> =>
                    /\ r.data = Some(a.stdout)
                    /\ o.data.some
                    /\ o.data.val.raw = a.stdout
                    /\ o.data.val.parsed = parseWhoisOutput(a.stdout))

\* C3 witness: exec reported an error although it produced output, and the
\* outcome is a failure.
C3_Witness ==
    /\ outcome.some
    /\ execArgs.val.error.some /\ execArgs.val.stdout # <<>>
    /\ outcome.val.error.some /\ ~outcome.val.data.some

\* C9: at most one lookup is in flight and at most one question is open,
\* never both; a lookup is in flight exactly while main awaits it, and main
\* comes back to the head of the loop (where alone it prompts) only with the
\* lookup resolved and its result or failure printed.
C9_Sequential ==
    /\ inFlight <= 1
    /\ questions <= 1
    /\ ~(inFlight > 0 /\ questions > 0)
    /\ (inFlight > 0 <=> pc = "LookingUp")
    /\ (questions > 0 <=> pc = "AwaitingInput")
    /\ (pc = "LoopTop" /\ execCalls > 0 =>
            inFlight = 0 /\ outcome.some /\ printed \in {"error", "data"})

\* C9 witness: a lookup is in flight and no question is open.
C9_Witness == pc = "LookingUp" /\ inFlight = 1 /\ questions = 0

(***************************************************************************)
(* getCleanHostname                                                        *)
(***************************************************************************)
\* C6 as stated: every non-null hostname getCleanHostname returns is in
\* lower case, has no scheme prefix and does not begin with "www.".
C6_NoLeadingWww ==
    ret.some /\ ret.val.some =>
        /\ ret.val.val = toLowerCase(ret.val.val)
        /\ ~HasHttpScheme(ret.val.val)
        /\ ~startsWith(ret.val.val, WwwPrefix)

\* C6 amended: every non-null hostname getCleanHostname returns is in lower
\* case and has no scheme prefix, and it begins with "www." only where the
\* input carried "www." twice in a row, of which one has been removed.
C6_OneWwwRemoved ==
    ret.some /\ ret.val.some =>
        /\ ret.val.val = toLowerCase(ret.val.val)
        /\ ~HasHttpScheme(ret.val.val)
        /\ (startsWith(ret.val.val, WwwPrefix) =>
                Occurrences(toLowerCase(arg), WwwPrefix \o ret.val.val) # {})

\* C6 witness: an input in upper case with a scheme and "www." has given a
\* hostname.
C6_Witness ==
    /\ arg = <<"H", "T", "T", "P", "S", ":", "/", "/", "W", "W", "W", ".", "B">> (* HTTPS://WWW.B *)
    /\ ret.some /\ ret.val = Some(<<"b">>)

(***************************************************************************)
(* extractDate                                                             *)
(***************************************************************************)
\* Whether the ten characters of s from position i read DDDD<sep>DD<sep>DD.
HasDateForm(s, i, sep) ==
    /\ i >= 1 /\ i + 9 <= Len(s)
    /\ {s[i + 4], s[i + 7]} = {sep}
    /\ \A k \in (0..9) \ {4, 7} : s[i + k] \in Digit

FirstDateForm(s, sep) == SetMin({i \in 1..Len(s) : HasDateForm(s, i, sep)})

\* C7: extractDate returns the first DDDD-DD-DD substring of the line as it
\* stands whenever there is one, whatever comes before it; otherwise the
\* first DDDD/DD/DD substring with both "/" turned into "-"; otherwise
\* nothing.
C7_ExtractDate ==
    ret.some =>
        IF \E i \in 1..Len(arg) : HasDateForm(arg, i, "-")
        THEN LET i == FirstDateForm(arg, "-")
             IN  ret.val = Some(SubSeq(arg, i, i + 9))
        ELSE IF \E i \in 1..Len(arg) : HasDateForm(arg, i, "/")
        THEN LET i == FirstDateForm(arg, "/")
             IN  ret.val = Some(SubSeq(arg, i, i + 3) \o <<"-">> \o
                                SubSeq(arg, i + 5, i + 6) \o <<"-">> \o
                                SubSeq(arg, i + 8, i + 9))
        ELSE ret.val = None

\* C7 witness: the line holds a slashed date and, after it, a dashed date,
\* and the dashed one has been returned.
C7_Witness ==
    /\ ret.some /\ ret.val = Some(<<"2", "0", "2", "0", "-", "0", "5", "-", "0", "1">> (* 2020-05-01 *))
    /\ \E i, j \in 1..Len(arg) :
          HasDateForm(arg, i, "/") /\ HasDateForm(arg, j, "-") /\ i < j

(***************************************************************************)
(* parseWhoisOutput                                                        *)
(***************************************************************************)
DateFields == {"creationDate", "updatedDate", "expiryDate"}

LabelsOf(field) ==
    CASE field = "creationDate" -> CreationLabels
      [] field = "updatedDate"  -> UpdatedLabels
      [] field = "expiryDate"   -> ExpiryLabels

\* The lines of raw that carry a label of the date field.
LabelledLines(raw, field) ==
    LET ls == trimmedLines(raw)
    IN  {i \in 1..Len(ls) : testI(ls[i], LabelsOf(field))}

\* Those of them in which extractDate finds a date.
DatedLines(raw, field) ==
    LET ls == trimmedLines(raw)
    IN  {i \in LabelledLines(raw, field) : extractDate(ls[i]).some}

\* The lines of raw that carry a country label.
CountryLines(raw) ==
    LET ls == trimmedLines(raw) IN {i \in 1..Len(ls) : IsCountryLine(ls[i])}

\* The text between the first and the second ":" of a line, trimmed.
SecondPart(line) ==
    LET colons == {i \in 1..Len(line) : line[i] = ":"}
        first  == SetMin(colons)
        later  == {i \in colons : i > first}
    IN  IF colons = {} THEN <<>>
        ELSE trim(SubSeq(line, first + 1,
                         IF later = {} THEN Len(line) ELSE SetMin(later) - 1))

\* The whole text after the first ":" of a line, trimmed.
AfterFirstColon(line) ==
    LET colons == {i \in 1..Len(line) : line[i] = ":"}
    IN  IF colons = {} THEN <<>> ELSE trim(substring(line, SetMin(colons)))

\* Those of the country lines whose SecondPart is not empty.
ValuedCountryLines(raw) ==
    LET ls == trimmedLines(raw)
    IN  {i \in CountryLines(raw) : SecondPart(ls[i]) # <<>>}

\* The calendar day a string DDDD-DD-DD names, and whether there is such a day.
DayNamed(str) ==
    [year  |-> Number(SubSeq(str, 1, 4)),
     month |-> Number(SubSeq(str, 6, 7)),
     day   |-> Number(SubSeq(str, 9, 10))]

IsCalendarDate(str) ==
    /\ DayNamed(str).month \in 1..12
    /\ DayNamed(str).day \in 1..DaysInMonth(DayNamed(str).year, DayNamed(str).month)

\* C4 as stated: the value of each field is taken from the last line that
\* matches a label of the field.
C4_LastMatchingLine ==
    ret.some =>
        LET ls == trimmedLines(arg)
        IN  /\ CountryLines(arg) # {} =>
                 LET v == SecondPart(ls[SetMax(CountryLines(arg))])
                 IN  ret.val.registrantCountry = (IF v = <<>> THEN None ELSE Some(v))
            /\ \A field \in DateFields :
                 LabelledLines(arg, field) # {} =>
                     ret.val[field] =
                         toDate(extractDate(ls[SetMax(LabelledLines(arg, field))]))

\* C4 amended: the value of each field is taken from the last line that
\* matches a label of the field and gives a value (a non-empty country, a
\* date pattern); matching lines that give none are passed over, and the
\* field is absent when no line gives one.
C4_LastValuedLine ==
    ret.some =>
        LET ls == trimmedLines(arg)
        IN  /\ ret.val.registrantCountry =
                 (IF ValuedCountryLines(arg) = {} THEN None
                  ELSE Some(SecondPart(ls[SetMax(ValuedCountryLines(arg))])))
            /\ \A field \in DateFields :
                 ret.val[field] =
                     (IF DatedLines(arg, field) = {} THEN None
                      ELSE toDate(extractDate(ls[SetMax(DatedLines(arg, field))])))

\* C4 witness: "Registrant Country: US" followed by "Country: CA" has given
\* the country CA.
C4_Witness ==
    /\ arg = <<"R", "e", "g", "i", "s", "t", "r", "a", "n", "t", " ", "C", "o", "u", "n", "t", "r", "y", ":", " ", "U", "S", "\n", "C", "o", "u", "n", "t", "r", "y", ":", " ", "C", "A">> (* Registrant Country: US\nCountry: CA *)
    /\ ret.some /\ ret.val.registrantCountry = Some(<<"C", "A">>)

\* C5: a date field whose extracted string is not a day of the calendar is
\* returned absent, and a field that is returned holds the day its string
\* names.
C5_InvalidDateAbsent ==
    ret.some =>
        \A field \in DateFields :
            DatedLines(arg, field) # {} =>
                LET ls  == trimmedLines(arg)
                    str == extractDate(ls[SetMax(DatedLines(arg, field))]).val
                IN  IF IsCalendarDate(str)
                    THEN ret.val[field] = Some(DayNamed(str))
                    ELSE ret.val[field] = None

\* C8: the country is the whole trimmed text after the first ":" of the last
\* country line where that text is not empty.
C8_CountryAfterFirstColon ==
    ret.some =>
        LET ls     == trimmedLines(arg)
            valued == {i \in CountryLines(arg) : AfterFirstColon(ls[i]) # <<>>}
        IN  ret.val.registrantCountry =
                (IF valued = {} THEN None
                 ELSE Some(AfterFirstColon(ls[SetMax(valued)])))

\* C10: a later line whose date has the pattern but names no day of the
\* calendar replaces an earlier valid date and the field is returned absent;
\* a later matching line that gives no value leaves the earlier value.
C10_LateInvalidDateWins ==
    ret.some =>
        LET ls == trimmedLines(arg)
        IN  /\ \A field \in DateFields :
                 LET dated == DatedLines(arg, field)
                     last  == SetMax(dated)
                 IN  /\ (/\ dated # {}
                         /\ ~IsCalendarDate(extractDate(ls[last]).val)
                         /\ \E i \in dated :
                               i < last /\ IsCalendarDate(extractDate(ls[i]).val))
                        => ret.val[field] = None
                     /\ (dated # {} /\ \E j \in LabelledLines(arg, field) : j > last)
                        => ret.val[field] = toDate(extractDate(ls[last]))
            /\ LET valued == ValuedCountryLines(arg)
               IN  (valued # {} /\ \E j \in CountryLines(arg) : j > SetMax(valued))
                   => ret.val.registrantCountry = Some(SecondPart(ls[SetMax(valued)]))

====
